---- MODULE Spec2Model ----
(***************************************************************************)
(* Order-lifecycle reconciliation of the market-making bots                *)
(*   bots/crypto/cex/mm/mm-mono-side.ts  (startMonitoring, one side)       *)
(*   bots/crypto/cex/mm/mm-both-side.ts  (startBot, both sides)            *)
(* against an exchange that is only visible through polled snapshots.      *)
(* A tick of the monitor is split at its awaits: every action below is the *)
(* code that runs between the return of one exchange call and the issue of *)
(* the next one.                                                           *)
(***************************************************************************)
EXTENDS Integers, Sequences, FiniteSets, TLC

(* ------------------------------ bounds --------------------------------- *)
\* ladder size of the run (config.numberOfOrders)
numberOfOrders == 2
\* concurrent invocations of the setInterval callback that are followed
MaxTicks == 2
\* orders the exchange accepts from the bot in the runs that are followed
MaxId == 8
\* disturbances in the runs that are followed: a failing exchange call, a
\* fill or manual cancellation, a move of the market, a foreign order
MaxEvents == 2

(* ------------------------- program constants --------------------------- *)
spreadPercent == 20
driftThresholdPercent == 20
\* prices are counted in price ticks
BasePrice == 6000

Ticks == 1..MaxTicks
Rungs == 1..numberOfOrders

VARIABLES
    config,          \* [mode, side, batch]: QuoteConfig and exchange capability
    phase,           \* "start" | "running" | "aborted" | "stopping" |
                     \* "cancelled" | "cancelFailed" | "exited"
    book,            \* open orders of the account on the symbol
    dying,           \* ids whose cancellation is accepted but not settled
    cancelRequested, \* ids of resting orders the bot asked the exchange to
                     \* cancel, whether the call succeeded or not (history)
    ticker,          \* resolved reference price, 0 = none obtainable
    nextId,          \* next exchange-assigned order id
    events,          \* disturbances so far
    activeOrderIds,  \* [bid, ask] -> tracked ids
    expectedCount,   \* [bid, ask] -> expectedBidCount / expectedAskCount
    isProcessing,    \* reentrancy flag of startBot
    pc,              \* position of every callback invocation
    loc,             \* locals of every callback invocation
    log,             \* what the invocation did in its tick (history)
    lastPlaced,      \* ids returned by the last successful placement (history)
    lastRecheck,     \* snapshot of the last deferred fill refresh of startBot
                     \* since the last placement (history)
    quoter,          \* one ladder placement seen call by call
    call             \* the helper function call under examination

vars == <<config, phase, book, dying, cancelRequested, ticker, nextId, events,
          activeOrderIds, expectedCount, isProcessing, pc, loc, log, lastPlaced,
          lastRecheck, quoter, call>>

exch == <<book, dying, cancelRequested, ticker, nextId>>

(* ------------------------------ helpers -------------------------------- *)
Ids(S) == {o.id : o \in S}
OnSide(S, s) == {o \in S : o.side = s}
OrderSide(side) == IF side = "bid" THEN "buy" ELSE "sell"
Abs(x) == IF x < 0 THEN -x ELSE x
MaxOf(S) == CHOOSE x \in S : \A y \in S : y <= x
MinOf(S) == CHOOSE x \in S : \A y \in S : x <= y
\* Math.round(num / den) for num >= 0, den > 0
Round(num, den) == (2 * num + den) \div (2 * den)

Has(l, e) == \E i \in 1..Len(l) : l[i] = e
Pos(l, e) == CHOOSE i \in 1..Len(l) : l[i] = e /\ \A j \in 1..(i - 1) : l[j] # e
Before(l, e1, e2) == Has(l, e1) /\ Has(l, e2) /\ Pos(l, e1) < Pos(l, e2)

NoLoc == [ours |-> {}, captured |-> {}, ids |-> {}]

\* no helper function has been called for examination
NotCalled == [fn |-> "none"]

\* no ladder placement is being followed call by call
NoCall == [at |-> "idle", side |-> "bid", i |-> 0, out |-> {},
           calls |-> <<>>, placedOrders |-> {}]


(* --------------------- Order Distribution Planner ---------------------- *)
\* the planner with the bid branch adding the offset
calculateOrderDistributionBidUp(referencePrice, side, totalQuoteAmount, spread, n) ==
    [i \in 1..n |->
        [num  |-> referencePrice * (200 * n + spread * (2 * i - 1)),
         den  |-> 200 * n,
         qnum |-> totalQuoteAmount,
         qden |-> n]]

\* the planner with offset spreadStep * (i + 1) in place of (i + 0.5)
calculateOrderDistributionWholeStep(referencePrice, side, totalQuoteAmount, spread, n) ==
    [i \in 1..n |->
        [num  |-> IF side = "bid"
                  THEN referencePrice * (200 * n - spread * (2 * i))
                  ELSE referencePrice * (200 * n + spread * (2 * i)),
         den  |-> 200 * n,
         qnum |-> totalQuoteAmount,
         qden |-> n]]

\* the planner reading state outside its arguments: the reference is
\* shifted once any helper was called before
calculateOrderDistributionStateful(referencePrice, side, totalQuoteAmount, spread, n) ==
    [i \in 1..n |->
        [num  |-> IF side = "bid"
                  THEN (referencePrice + (IF call.fn = "none" THEN 0 ELSE 1))
                           * (200 * n - spread * (2 * i - 1))
                  ELSE (referencePrice + (IF call.fn = "none" THEN 0 ELSE 1))
                           * (200 * n + spread * (2 * i - 1)),
         den  |-> 200 * n,
         qnum |-> totalQuoteAmount,
         qden |-> n]]

\* Rung i (from 1) lies spreadPercent/100/n * (i - 0.5) away from the
\* reference; the price is kept exact as num/den, the notional as qnum/qden.
calculateOrderDistribution(referencePrice, side, totalQuoteAmount, spread, n) ==
    [i \in 1..n |->
        [num  |-> IF side = "bid"
                  THEN referencePrice * (200 * n - spread * (2 * i - 1))
                  ELSE referencePrice * (200 * n + spread * (2 * i - 1)),
         den  |-> 200 * n,
         qnum |-> totalQuoteAmount,
         qden |-> n]]

(* ------------------------- Precision Normalizer ------------------------ *)
priceTickSize == 1
amountTickSize == 1
minPrice == 1
minAmount == 1
totalQuoteAmount == 120000

minCost == 1

\* the market limits and precisions the model's ladders are placed under
Market ==
    [priceTick |-> priceTickSize, amountTick |-> amountTickSize,
     minPrice |-> minPrice, minAmount |-> minAmount, minCost |-> minCost]

\* prepareOrder for the limits m of any market: the price is rounded to the
\* price tick and raised to the minimum price, the base amount is rounded to
\* the amount tick, and the rung is rejected (ok = FALSE) only for a base
\* amount below the minimum amount; the check against minCost is commented
\* out (lines 246-253)
normalize(rung, m) ==
    LET rounded == Round(rung.num, rung.den * m.priceTick) * m.priceTick
        price == IF rounded < m.minPrice THEN m.minPrice ELSE rounded
        baseAmount == Round(rung.qnum * rung.den,
                            rung.qden * rung.num * m.amountTick) * m.amountTick
    IN  [price |-> price, baseAmount |-> baseAmount,
         ok |-> baseAmount >= m.minAmount]

\* price and base amount of a rung after rounding; ok is FALSE for a rung
\* whose base amount is below the minimum amount
prepareOrder(rung) == normalize(rung, Market)

\* the normalized ladder of one side for a reference price
Ladder(side, ref) ==
    LET plan == calculateOrderDistribution(ref, side, totalQuoteAmount,
                                           spreadPercent, numberOfOrders)
    IN  [i \in Rungs |-> prepareOrder(plan[i])]

\* rungs that prepareOrder lets through
Prepared(side, ref) == {i \in Rungs : Ladder(side, ref)[i].ok}

\* rung sets S whose createLimitOrder calls succeed while those of the other
\* prepared rungs fail; with no usable reference every call fails
Placeable(side, ref, budget) ==
    IF ref = 0 THEN {{}}
    ELSE {S \in SUBSET Prepared(side, ref) :
             Cardinality(Prepared(side, ref) \ S) <= budget}

\* createLimitOrder calls of a ladder that failed
Failed(side, ref, S) ==
    IF ref = 0 THEN 0 ELSE Cardinality(Prepared(side, ref) \ S)

\* the orders resting after the rungs S of a ladder were accepted; ids are
\* assigned in rung order starting at first
NewOrders(side, ref, S, first) ==
    {[id    |-> first + Cardinality({k \in S : k < i}),
      side  |-> OrderSide(side),
      price |-> Ladder(side, ref)[i].price,
      own   |-> TRUE] : i \in S}

(* ----------------------------- Drift Monitor --------------------------- *)
\* nearest resting order: highest bid, lowest ask (0 stands for none)
closestOrderPrice(side, orders) ==
    IF orders = {} THEN 0
    ELSE IF side = "bid" THEN MaxOf({o.price : o \in orders})
    ELSE MinOf({o.price : o \in orders})

\* the comparison of line 1113 with >= in place of >
DriftExceededOrEqual(closest, reference, threshold) ==
    IF reference = 0 THEN TRUE
    ELSE Abs(closest - reference) * 100 >= threshold * reference

\* Math.abs((closest - reference) / reference * 100) > driftThreshold;
\* a reference of 0 makes the quotient infinite
DriftExceeded(closest, reference, threshold) ==
    IF reference = 0 THEN TRUE
    ELSE Abs(closest - reference) * 100 > threshold * reference

\* the count test of line 1112 left out
needsRefreshDriftOnly(count, closest, reference) ==
    DriftExceeded(closest, reference, driftThresholdPercent)

\* the count test of line 1112 with <= in place of <
needsRefreshOffByOne(count, closest, reference) ==
    \/ count <= numberOfOrders
    \/ DriftExceeded(closest, reference, driftThresholdPercent)

needsRefresh(count, closest, reference) ==
    \/ count < numberOfOrders
    \/ DriftExceeded(closest, reference, driftThresholdPercent)

(* ------------------------------ exchange ------------------------------- *)
Sides == {"bid", "ask"}
ourSide == OrderSide(config.side)
Mono == config.mode = "mono"
Both == config.mode = "both"

\* reference prices the market moves between: the nearest rung of a ladder
\* quoted at BasePrice is exactly 20% away from the second price and 25%
\* away from the third
RefPrices ==
    IF Mono /\ config.side = "bid" THEN {BasePrice, 7125, 7600}
    ELSE {BasePrice, 5250, 5040}

\* one more disturbance; Fault is an exchange call that throws
Disturb == events < MaxEvents /\ events' = events + 1
Fault == Disturb
NoFault == events' = events

\* a resting order fills or is cancelled by hand
OrderGone ==
    /\ phase = "running"
    /\ Disturb
    /\ \E o \in book :
          /\ book' = book \ {o}
          /\ dying' = dying \ {o.id}
          /\ cancelRequested' = cancelRequested \ {o.id}
    /\ UNCHANGED <<config, quoter, call, phase, ticker, nextId, activeOrderIds,
                   expectedCount, isProcessing, pc, loc, log, lastPlaced, lastRecheck>>

\* accepted cancellations take effect
Settle ==
    /\ dying # {}
    /\ book' = {o \in book : o.id \notin dying}
    /\ dying' = {}
    /\ cancelRequested' = cancelRequested \ dying
    /\ UNCHANGED <<config, quoter, call, phase, ticker, nextId, events, activeOrderIds,
                   expectedCount, isProcessing, pc, loc, log, lastPlaced, lastRecheck>>

\* the market moves, or the book empties so that no reference is obtainable
PriceMove ==
    /\ phase = "running"
    /\ Disturb
    /\ \E p \in RefPrices \cup {0} : p # ticker /\ ticker' = p
    /\ UNCHANGED <<config, quoter, call, phase, book, dying, cancelRequested, nextId,
                   activeOrderIds, expectedCount, isProcessing, pc, loc, log,
                   lastPlaced, lastRecheck>>

\* somebody else (a second bot, the operator) places an order on the account
ForeignPlace ==
    /\ phase = "running"
    /\ Disturb
    /\ \E s \in {"buy", "sell"} :
          book' = book \cup {[id |-> MaxId + 1 + events, side |-> s,
                              price |-> BasePrice, own |-> FALSE]}
    /\ UNCHANGED <<config, quoter, call, phase, dying, cancelRequested, ticker, nextId, activeOrderIds,
                   expectedCount, isProcessing, pc, loc, log, lastPlaced, lastRecheck>>

(* --------------------------- tick bookkeeping -------------------------- *)
Step(t, next, evs) ==
    /\ pc' = [pc EXCEPT ![t] = next]
    /\ log' = [log EXCEPT ![t] = log[t] \o evs]

\* a tick end that releases the guard on the normal path only (no finally)
FinishNoFinally(t, evs) ==
    /\ Step(t, "idle", evs)
    /\ loc' = [loc EXCEPT ![t] = NoLoc]
    /\ isProcessing' = IF Both /\ ~Has(evs, "throw") THEN FALSE ELSE isProcessing

\* the callback invocation returns; startBot releases its flag in finally
Finish(t, evs) ==
    /\ Step(t, "idle", evs)
    /\ loc' = [loc EXCEPT ![t] = NoLoc]
    /\ isProcessing' = IF Both THEN FALSE ELSE isProcessing

\* history of a tick that begins now: whether anything is tracked
TickStart ==
    IF \A s \in Sides : activeOrderIds[s] = {} THEN <<"untracked">> ELSE <<>>

Track(side, ids) == activeOrderIds' = [activeOrderIds EXCEPT ![side] = ids]

(* ----------------------- Side Quoter (mono side) ----------------------- *)
\* placeMonoSideOrders returns with the rungs S resting
placeMonoSideOrders(S) ==
    /\ ticker # 0
    /\ S \in Placeable(config.side, ticker, MaxEvents - events)
    /\ nextId + Cardinality(S) <= MaxId + 1
    /\ book' = book \cup NewOrders(config.side, ticker, S, nextId)
    /\ nextId' = nextId + Cardinality(S)
    /\ lastPlaced' = [lastPlaced EXCEPT
                         ![config.side] = Ids(NewOrders(config.side, ticker, S, nextId))]
    /\ UNCHANGED lastRecheck
    /\ events' = events + Failed(config.side, ticker, S)
    /\ UNCHANGED <<dying, cancelRequested, ticker>>

\* placeMonoSideOrders throws: no reference price ("Unable to get reference
\* price"), or the ticker or balance call failed, or no balance
placeMonoSideOrdersThrows ==
    /\ \/ ticker = 0 /\ NoFault
       \/ Fault
    /\ UNCHANGED <<book, dying, cancelRequested, ticker, nextId, lastPlaced,
                   lastRecheck>>

\* ids whose cancelOrder is answered ORDER_005 / InvalidOrder: the order is
\* no longer open (lines 681-686)
alreadyGone(ids) == ids \ Ids(book)

\* what a cancel adds to the tick's history; the per-id summary of line 716
\* counts the ids that were already gone
cancelEvents(ids) ==
    IF ~config.batch /\ alreadyGone(ids) # {}
    THEN <<"cancel", "gone">> ELSE <<"cancel">>

\* the per-id fallback with an "already gone" answer treated as a failure
\* of the whole cancel
cancelMonoSideOrdersGoneThrows(ids, result) ==
    \/ /\ config.batch
       /\ result = "ok"
       /\ dying' = dying \cup Ids(book)
       /\ cancelRequested' = Ids(book)
       /\ NoFault
    \/ /\ config.batch
       /\ result = "throw"
       /\ dying' = dying
       /\ cancelRequested' = Ids(book)
       /\ Fault
    \/ /\ ~config.batch
       /\ result = IF alreadyGone(ids) = {} THEN "ok" ELSE "throw"
       /\ \E F \in SUBSET ids :
             /\ dying' = dying \cup ((ids \ F) \cap Ids(book))
             /\ cancelRequested' = cancelRequested \cup (ids \cap Ids(book))
             /\ IF F = {} THEN NoFault ELSE Fault

\* cancelMonoSideOrders(ids) for a non-empty id list: the batch call, and
\* one cancelOrder per id when the batch call is not supported; F are the
\* ids whose cancelOrder failed with an error other than "already gone"
cancelMonoSideOrders(ids, result) ==
    \/ /\ config.batch
       /\ result = "ok"
       /\ dying' = dying \cup Ids(book)
       /\ cancelRequested' = Ids(book)
       /\ NoFault
    \/ /\ config.batch
       /\ result = "throw"
       /\ dying' = dying
       /\ cancelRequested' = Ids(book)
       /\ Fault
    \/ /\ ~config.batch
       /\ result = "ok"
       /\ \E F \in SUBSET ids :
             /\ dying' = dying \cup ((ids \ F) \cap Ids(book))
             /\ cancelRequested' = cancelRequested \cup (ids \cap Ids(book))
             /\ IF F = {} THEN NoFault ELSE Fault

(* ------------------- startMonitoring: initial placement ---------------- *)
MonoStart ==
    /\ phase = "start"
    /\ Mono
    /\ \/ \E S \in SUBSET Rungs :
             /\ placeMonoSideOrders(S)
             /\ Track(config.side,
                      Ids(NewOrders(config.side, ticker, S, nextId)))
             /\ phase' = "running"
       \/ /\ placeMonoSideOrdersThrows
          /\ phase' = "aborted"
          /\ UNCHANGED activeOrderIds
    /\ UNCHANGED <<config, quoter, call, expectedCount, isProcessing, pc, loc, log>>

(* ---------------------- startMonitoring: one tick ---------------------- *)
\* the interval timer fires; the callback has no guard
MonoTimer(t) ==
    /\ phase = "running"
    /\ Mono
    /\ pc[t] = "idle"
    /\ \A u \in Ticks : u < t => pc[u] # "idle"
    /\ pc' = [pc EXCEPT ![t] = "m_fetch1"]
    /\ log' = [log EXCEPT ![t] = TickStart]
    /\ UNCHANGED <<config, quoter, call, phase, exch, events, activeOrderIds, expectedCount,
                   isProcessing, loc, lastPlaced, lastRecheck>>

\* fetchOpenOrders returned: none on our side -> place, else look for fills
MonoFetch1(t) ==
    /\ pc[t] = "m_fetch1"
    /\ \/ /\ Fault
          /\ Finish(t, <<"throw">>)
       \/ /\ NoFault
          /\ LET ourSideOrders == OnSide(book, ourSide) IN
             IF ourSideOrders = {}
             THEN /\ Step(t, "m_emptyPlace",
                          <<"snap0">>)
                  /\ UNCHANGED <<loc, isProcessing>>
             ELSE /\ Step(t, "m_checkFilled",
                          <<"snap">>)
                  /\ loc' = [loc EXCEPT ![t] =
                                [ours |-> ourSideOrders,
                                 captured |-> activeOrderIds[config.side],
                                 ids |-> {}]]
                  /\ UNCHANGED isProcessing
    /\ UNCHANGED <<config, quoter, call, phase, exch, activeOrderIds, expectedCount, lastPlaced, lastRecheck>>

\* handleOrderFills up to its first await: guard of line 819
handleOrderFillsActs(ourSideOpen, tracked) ==
    Cardinality(ourSideOpen) < Cardinality(tracked)

\* the test of line 1034 with > 1 in place of > 0
anyFilledButOne(filled) == Cardinality(filled) > 1

\* filled.length > 0 (line 1034)
anyFilled(filled) == filled # {}

\* checkFilledOrders returned: fill path, tracking mismatch or drift check
MonoCheckFilled(t) ==
    /\ pc[t] = "m_checkFilled"
    /\ \/ /\ Fault
          /\ Finish(t, <<"throw">>)
          /\ UNCHANGED activeOrderIds
       \/ /\ NoFault
          /\ LET tracked == activeOrderIds[config.side]
                 filled == loc[t].captured \ Ids(book)
                 open == {o \in book : o.id \in loc[t].captured}
                 ourSideOpen == OnSide(open, ourSide)
                 ourOrders == {o \in loc[t].ours : o.id \in tracked}
                 fill == "fill"
             IN
             IF anyFilled(filled)
             THEN IF handleOrderFillsActs(ourSideOpen, tracked)
                  THEN IF ourSideOpen # {}
                       THEN /\ Step(t, "m_fillCancel", <<fill, "remaining">>)
                            /\ loc' = [loc EXCEPT ![t].ids = Ids(ourSideOpen)]
                            /\ UNCHANGED <<activeOrderIds, isProcessing>>
                       ELSE /\ Step(t, "m_fillRecheck", <<fill>>)
                            /\ UNCHANGED <<loc, activeOrderIds, isProcessing>>
                  ELSE /\ Track(config.side, {})
                       /\ Finish(t, <<fill, "clear">>)
             ELSE IF ourOrders = {} /\ tracked # {}
                  THEN /\ Track(config.side, {})
                       /\ Finish(t, <<"mismatch", "clear">>)
                  ELSE /\ Step(t, "m_refPrice", <<"nofill">>)
                       /\ loc' = [loc EXCEPT ![t].ours = ourOrders]
                       /\ UNCHANGED <<activeOrderIds, isProcessing>>
    /\ UNCHANGED <<config, quoter, call, phase, exch, expectedCount, lastPlaced, lastRecheck>>

\* handleOrderFills: cancelMonoSideOrders returned or threw (caught, line 836)
MonoFillCancel(t) ==
    /\ pc[t] = "m_fillCancel"
    /\ \E result \in {"ok", "throw"} :
          /\ cancelMonoSideOrders(loc[t].ids, result)
          /\ Step(t, "m_fillRecheck", cancelEvents(loc[t].ids))
    /\ UNCHANGED <<config, quoter, call, phase, book, ticker, nextId, activeOrderIds,
                   expectedCount, isProcessing, loc, lastPlaced, lastRecheck>>

\* handleOrderFills: the second snapshot returned; lines 1043-1045
MonoFillRecheck(t) ==
    /\ pc[t] = "m_fillRecheck"
    /\ \/ /\ Fault
          /\ Finish(t, <<"throw">>)
          /\ UNCHANGED activeOrderIds
       \/ /\ NoFault
          /\ Track(config.side, {})
          /\ LET ourSideCount == Cardinality(OnSide(book, ourSide)) IN
             IF ourSideCount = 0
             THEN /\ Step(t, "m_fillPlace",
                          <<"recheck0", "clear">>)
                  /\ UNCHANGED <<loc, isProcessing>>
             ELSE Finish(t, <<"recheck",
                              "clear">>)
    /\ UNCHANGED <<config, quoter, call, phase, exch, expectedCount, lastPlaced, lastRecheck>>

\* getReferencePrice returned: count and drift decision, lines 1087-1115
MonoRefPrice(t) ==
    /\ pc[t] = "m_refPrice"
    /\ \/ /\ Fault
          /\ Finish(t, <<"throw">>)
          /\ UNCHANGED activeOrderIds
       \/ /\ NoFault
          /\ LET ourOrders == loc[t].ours
                 count == Cardinality(ourOrders)
                 closest == closestOrderPrice(config.side, ourOrders)
                 decide == "decide"
                 \* lines 1117-1136: which of the two reasons is reported
                 why == IF count < numberOfOrders THEN "count" ELSE "drift"
             IN
             IF needsRefresh(count, closest, ticker)
             THEN IF ourOrders # {}
                  THEN /\ Step(t, "m_refCancel", <<decide, "refresh", why>>)
                       /\ loc' = [loc EXCEPT ![t].ids = Ids(ourOrders)]
                       /\ UNCHANGED <<activeOrderIds, isProcessing>>
                  \* cancelMonoSideOrders does nothing for an empty id list
                  ELSE /\ Step(t, "m_refRecheck",
                               <<decide, "refresh", why, "clear">>)
                       /\ Track(config.side, {})
                       /\ UNCHANGED <<loc, isProcessing>>
             ELSE /\ Finish(t, <<decide, "stable">>)
                  /\ UNCHANGED activeOrderIds
    /\ UNCHANGED <<config, quoter, call, phase, exch, expectedCount, lastPlaced, lastRecheck>>

\* refresh: cancelMonoSideOrders returned (line 1156) or threw (line 1194)
MonoRefCancel(t) ==
    /\ pc[t] = "m_refCancel"
    /\ \E result \in {"ok", "throw"} :
          /\ cancelMonoSideOrders(loc[t].ids, result)
          /\ Track(config.side, {})
          /\ IF result = "ok"
             THEN /\ Step(t, "m_refRecheck",
                          cancelEvents(loc[t].ids) \o <<"clear">>)
                  /\ UNCHANGED <<loc, isProcessing>>
             ELSE Finish(t, <<"cancel",
                              "throw", "clear">>)
    /\ UNCHANGED <<config, quoter, call, phase, book, ticker, nextId, expectedCount,
                   lastPlaced, lastRecheck>>

\* refresh: the re-verification snapshot returned, lines 1159-1190
MonoRefRecheck(t) ==
    /\ pc[t] = "m_refRecheck"
    /\ \/ /\ Fault
          /\ Track(config.side, {})
          /\ Finish(t, <<"throw", "clear">>)
       \/ /\ NoFault
          /\ LET recheckOurSide == Cardinality(OnSide(book, ourSide)) IN
             IF recheckOurSide = 0
             THEN /\ Step(t, "m_refPlace", <<"recheck0">>)
                  /\ UNCHANGED <<loc, isProcessing>>
             ELSE Finish(t, <<"recheck">>)
          /\ UNCHANGED activeOrderIds
    /\ UNCHANGED <<config, quoter, call, phase, exch, expectedCount, lastPlaced, lastRecheck>>

\* placeMonoSideOrders returned or threw, on the empty path (lines 1004-1020),
\* the fill path (1050-1068) and the refresh path (1171-1194)
MonoPlace(t) ==
    /\ pc[t] \in {"m_emptyPlace", "m_fillPlace", "m_refPlace"}
    /\ \/ \E S \in SUBSET Rungs :
             /\ placeMonoSideOrders(S)
             /\ Track(config.side,
                      Ids(NewOrders(config.side, ticker, S, nextId)))
             /\ Finish(t, <<"place">>)
       \/ /\ placeMonoSideOrdersThrows
          /\ IF pc[t] = "m_refPlace"
             THEN /\ Track(config.side, {})
                  /\ Finish(t, <<"place",
                                 "throw", "clear">>)
             ELSE /\ UNCHANGED activeOrderIds
                  /\ Finish(t, <<"place",
                                 "throw">>)
    /\ UNCHANGED <<config, quoter, call, phase, expectedCount>>

(* ----------------------- Side Quoter (both sides) ---------------------- *)
\* placeBothSides returns: one reference price, the bid ladder first, then
\* the ask ladder; Sb and Sa are the rungs that were accepted
placeBothSides(Sb, Sa) ==
    LET bidOrders == NewOrders("bid", ticker, Sb, nextId)
        askOrders == NewOrders("ask", ticker, Sa, nextId + Cardinality(Sb))
    IN  /\ Sb \in Placeable("bid", ticker, MaxEvents - events)
        /\ Sa \in Placeable("ask", ticker,
                            MaxEvents - events - Failed("bid", ticker, Sb))
        /\ nextId + Cardinality(Sb) + Cardinality(Sa) <= MaxId + 1
        /\ book' = book \cup bidOrders \cup askOrders
        /\ nextId' = nextId + Cardinality(Sb) + Cardinality(Sa)
        /\ activeOrderIds' = [bid |-> Ids(bidOrders), ask |-> Ids(askOrders)]
        /\ expectedCount' = [bid |-> Cardinality(bidOrders),
                             ask |-> Cardinality(askOrders)]
        /\ lastPlaced' = [bid |-> Ids(bidOrders), ask |-> Ids(askOrders)]
        /\ lastRecheck' = {}
        /\ events' = events + Failed("bid", ticker, Sb) + Failed("ask", ticker, Sa)
        /\ UNCHANGED <<dying, cancelRequested, ticker>>

\* placeBothSides throws: only its ticker call can
placeBothSidesThrows ==
    /\ Fault
    /\ UNCHANGED <<book, dying, cancelRequested, ticker, nextId, activeOrderIds,
                   expectedCount, lastPlaced, lastRecheck>>

\* exchange.cancelAllOrders(symbol)
exchangeCancelAll(result) ==
    \/ /\ config.batch
       /\ result = "ok"
       /\ dying' = dying \cup Ids(book)
       /\ cancelRequested' = Ids(book)
       /\ NoFault
    \/ /\ config.batch
       /\ result = "throw"
       /\ dying' = dying
       /\ cancelRequested' = Ids(book)
       /\ Fault
    \/ /\ ~config.batch
       /\ result = "throw"
       /\ dying' = dying
       /\ cancelRequested' = Ids(book)
       /\ NoFault

\* cancelAllOrders(exchange, symbol, orderIds): nothing for an empty list,
\* an error of the exchange call is logged and swallowed
cancelAllOrders(orderIds) ==
    IF orderIds = {}
    THEN dying' = dying /\ cancelRequested' = cancelRequested /\ NoFault
    ELSE \E result \in {"ok", "throw"} : exchangeCancelAll(result)

(* ----------------------- startBot: initial placement ------------------- *)
BothStart ==
    /\ phase = "start"
    /\ Both
    /\ \/ \E Sb \in SUBSET Rungs, Sa \in SUBSET Rungs :
             /\ placeBothSides(Sb, Sa)
             /\ phase' = "running"
       \/ /\ placeBothSidesThrows
          /\ phase' = "aborted"
    /\ UNCHANGED <<config, quoter, call, isProcessing, pc, loc, log>>

(* --------------------------- startBot: one tick ------------------------ *)
\* the interval timer fires: the callback returns at once when isProcessing
BothTimer(t) ==
    /\ phase = "running"
    /\ Both
    /\ pc[t] = "idle"
    /\ \A u \in Ticks : u < t => pc[u] # "idle"
    /\ IF isProcessing
       THEN UNCHANGED <<pc, log, isProcessing>>
       ELSE /\ isProcessing' = TRUE
            /\ pc' = [pc EXCEPT ![t] = "b_checkFills"]
            /\ log' = [log EXCEPT ![t] = TickStart]
    /\ UNCHANGED <<config, quoter, call, phase, exch, events, activeOrderIds, expectedCount,
                   loc, lastPlaced, lastRecheck>>

\* checkForFills returned
BothCheckFills(t) ==
    /\ pc[t] = "b_checkFills"
    /\ \/ /\ Fault
          /\ Finish(t, <<"throw">>)
       \/ /\ NoFault
          /\ LET bidFilled == activeOrderIds["bid"] \ Ids(book)
                 askFilled == activeOrderIds["ask"] \ Ids(book)
             IN
             IF bidFilled # {} \/ askFilled # {}
             THEN Step(t, "b_fillCancel",
                       <<"fill">>)
             ELSE Step(t, "b_fetch2", <<"nofill">>)
          /\ UNCHANGED <<loc, isProcessing>>
    /\ UNCHANGED <<config, quoter, call, phase, exch, activeOrderIds, expectedCount, lastPlaced, lastRecheck>>

\* fill path: exchange.cancelAllOrders(symbol) returned or threw (line 476)
BothFillCancel(t) ==
    /\ pc[t] = "b_fillCancel"
    /\ \E result \in {"ok", "throw"} :
          /\ exchangeCancelAll(result)
          /\ IF result = "ok"
             THEN /\ Step(t, "b_fillRecheck", <<"cancel">>)
                  /\ UNCHANGED <<loc, isProcessing>>
             ELSE Finish(t, <<"cancel", "throw">>)
    /\ UNCHANGED <<config, quoter, call, phase, book, ticker, nextId, activeOrderIds,
                   expectedCount, lastPlaced, lastRecheck>>

\* the side filter of lines 510-515 left out
remainingIdsUnfiltered(recheckOrders, orderSide) == Ids(recheckOrders)

\* ids of the orders of one side that the re-verification snapshot still
\* shows (lines 509-516)
remainingIds(recheckOrders, orderSide) == Ids(OnSide(recheckOrders, orderSide))

\* fill path: the second snapshot returned, lines 482-517
BothFillRecheck(t) ==
    /\ pc[t] = "b_fillRecheck"
    /\ \/ /\ Fault
          /\ Finish(t, <<"throw">>)
          /\ UNCHANGED <<activeOrderIds, lastRecheck>>
       \/ /\ NoFault
          /\ IF book = {}
             THEN /\ Step(t, "b_fillPlace", <<"recheck0">>)
                  /\ UNCHANGED <<loc, isProcessing, activeOrderIds, lastRecheck>>
             ELSE /\ activeOrderIds' = [bid |-> remainingIds(book, "buy"),
                                        ask |-> remainingIds(book, "sell")]
                  /\ lastRecheck' = book
                  /\ Finish(t, <<"recheck", "retrack">>)
    /\ UNCHANGED <<config, quoter, call, phase, exch, expectedCount, lastPlaced>>

\* the snapshot of line 523 returned: missing side, count mismatch, heartbeat
BothFetch2(t) ==
    /\ pc[t] = "b_fetch2"
    /\ \/ /\ Fault
          /\ Finish(t, <<"throw">>)
       \/ /\ NoFault
          /\ LET ourBidOrders == {o \in OnSide(book, "buy") :
                                     o.id \in activeOrderIds["bid"]}
                 ourAskOrders == {o \in OnSide(book, "sell") :
                                     o.id \in activeOrderIds["ask"]}
                 nb == Cardinality(ourBidOrders)
                 na == Cardinality(ourAskOrders)
                 seen == "decide"
             IN
             IF nb = 0 \/ na = 0
             THEN /\ Step(t, "b_refCancel", <<seen, "missing">>)
                  /\ UNCHANGED <<loc, isProcessing>>
             ELSE IF nb < expectedCount["bid"] \/ na < expectedCount["ask"]
             THEN /\ Step(t, "b_refCancel", <<seen, "refresh", "count">>)
                  /\ UNCHANGED <<loc, isProcessing>>
             ELSE Finish(t, <<seen, "stable">>)
    /\ UNCHANGED <<config, quoter, call, phase, exch, activeOrderIds, expectedCount, lastPlaced, lastRecheck>>

\* missing / count mismatch: cancelAllOrders returned (lines 543, 566)
BothRefCancel(t) ==
    /\ pc[t] = "b_refCancel"
    /\ cancelAllOrders(activeOrderIds["bid"] \cup activeOrderIds["ask"])
    /\ Step(t, "b_refPlace",
            IF activeOrderIds["bid"] \cup activeOrderIds["ask"] = {}
            THEN <<>> ELSE <<"cancel">>)
    /\ UNCHANGED <<config, quoter, call, phase, book, ticker, nextId, activeOrderIds,
                   expectedCount, isProcessing, loc, lastPlaced, lastRecheck>>

\* placeBothSides returned or threw (lines 493-501, 549-553, 573-577)
BothPlace(t) ==
    /\ pc[t] \in {"b_fillPlace", "b_refPlace"}
    /\ \/ \E Sb \in SUBSET Rungs, Sa \in SUBSET Rungs :
             /\ placeBothSides(Sb, Sa)
             /\ Finish(t, <<"place">>)
       \/ /\ placeBothSidesThrows
          /\ Finish(t, <<"place", "throw">>)
    /\ UNCHANGED <<config, quoter, call, phase>>

(* ------------------------------ behaviour ------------------------------ *)
Configs == {[mode |-> "mono", side |-> "bid"], [mode |-> "mono", side |-> "ask"],
            [mode |-> "both", side |-> "ask"]}

Init ==
    /\ config \in {[mode |-> c.mode, side |-> c.side, batch |-> b] :
                      c \in Configs, b \in BOOLEAN}
    /\ phase = "start"
    /\ book = {}
    /\ dying = {}
    /\ cancelRequested = {}
    /\ ticker \in {BasePrice, 0}
    /\ nextId = 1
    /\ events = 0
    /\ activeOrderIds = [s \in Sides |-> {}]
    /\ expectedCount = [s \in Sides |-> 0]
    /\ isProcessing = FALSE
    /\ pc = [t \in Ticks |-> "idle"]
    /\ loc = [t \in Ticks |-> NoLoc]
    /\ log = [t \in Ticks |-> <<>>]
    /\ lastPlaced = [s \in Sides |-> {}]
    /\ lastRecheck = {}
    /\ quoter = NoCall
    /\ call = NotCalled

Next ==
    \/ MonoStart
    \/ BothStart
    \/ OrderGone
    \/ Settle
    \/ PriceMove
    \/ ForeignPlace
    \/ \E t \in Ticks : MonoTimer(t)
    \/ \E t \in Ticks : MonoFetch1(t)
    \/ \E t \in Ticks : MonoCheckFilled(t)
    \/ \E t \in Ticks : MonoFillCancel(t)
    \/ \E t \in Ticks : MonoFillRecheck(t)
    \/ \E t \in Ticks : MonoRefPrice(t)
    \/ \E t \in Ticks : MonoRefCancel(t)
    \/ \E t \in Ticks : MonoRefRecheck(t)
    \/ \E t \in Ticks : MonoPlace(t)
    \/ \E t \in Ticks : BothTimer(t)
    \/ \E t \in Ticks : BothCheckFills(t)
    \/ \E t \in Ticks : BothFillCancel(t)
    \/ \E t \in Ticks : BothFillRecheck(t)
    \/ \E t \in Ticks : BothFetch2(t)
    \/ \E t \in Ticks : BothRefCancel(t)
    \/ \E t \in Ticks : BothPlace(t)

Spec == Init /\ [][Next]_vars

(* ------------------- startMonitoring under fair scheduling ------------- *)
\* steps of one invocation of the startMonitoring callback
MonoTick(t) ==
    \/ MonoTimer(t)
    \/ MonoFetch1(t)
    \/ MonoCheckFilled(t)
    \/ MonoFillCancel(t)
    \/ MonoFillRecheck(t)
    \/ MonoRefPrice(t)
    \/ MonoRefCancel(t)
    \/ MonoRefRecheck(t)
    \/ MonoPlace(t)

InitMono == Init /\ Mono

NextMono ==
    \/ MonoStart
    \/ OrderGone
    \/ Settle
    \/ PriceMove
    \/ ForeignPlace
    \/ \E t \in Ticks : MonoTick(t)

\* the timer keeps firing, every awaited exchange call returns, and every
\* cancellation the exchange accepted takes effect
FairMono ==
    /\ InitMono
    /\ [][NextMono]_vars
    /\ WF_vars(Settle)
    /\ \A t \in Ticks : WF_vars(MonoTick(t))

(* ------------------------------ properties ----------------------------- *)
\* C1: on neither side do more bot-placed orders rest at the same time than
\* one ladder has rungs (numberOfOrders): a replacement ladder is never
\* stacked on orders of an earlier ladder that are still open.  Orders whose
\* cancellation the exchange has accepted are not counted.
NoDuplicateExposure ==
    \A s \in {"buy", "sell"} :
        Cardinality({o \in book : o.own /\ o.side = s /\ o.id \notin dying})
            <= numberOfOrders

\* C2: at most one invocation of the monitor callback is inside its body at
\* any moment, for startMonitoring and for startBot alike.
AtMostOneTickBody ==
    Cardinality({t \in Ticks : pc[t] # "idle"}) <= 1

FillRefreshInOrder ==
    \A t \in Ticks :
        Has(log[t], "fill") =>
            LET l == log[t]
                rechecked == Has(l, "recheck0") \/ Has(l, "recheck")
            IN  /\ Has(l, "place") => Before(l, "recheck0", "place")
                /\ (Has(l, "cancel") /\ Has(l, "recheck0"))
                       => Before(l, "cancel", "recheck0")
                /\ (Has(l, "cancel") /\ Has(l, "recheck"))
                       => Before(l, "cancel", "recheck")
                /\ pc[t] = "idle" =>
                       /\ (Both \/ Has(l, "remaining")) => Has(l, "cancel")
                       /\ Has(l, "recheck0") <=> Has(l, "place")
                       /\ ~Has(l, "throw") => rechecked

\* C5: a deferred refresh recovers.  Once a tick has ended with its refresh
\* deferred (the re-verification still showed resting orders, or the cancel
\* threw), the tracked set is empty, orders of the bot still rest on its
\* side, and from then on no exchange call fails, nothing fills and the
\* reference price is obtainable, a fresh ladder is eventually placed and
\* tracked.
DeferredRefreshRecovers ==
    (/\ Mono
     /\ phase = "running"
     /\ \E t \in Ticks :
            /\ pc[t] = "idle"
            /\ \/ Has(log[t], "recheck")
               \/ Has(log[t], "cancel") /\ Has(log[t], "throw")
     /\ activeOrderIds[config.side] = {}
     /\ OnSide(book, ourSide) # {}
     /\ \A o \in book : o.own
     /\ events = MaxEvents
     /\ ticker # 0
     /\ nextId + numberOfOrders <= MaxId + 1)
    ~> (/\ activeOrderIds[config.side] # {}
        /\ activeOrderIds[config.side] \subseteq Ids(OnSide(book, ourSide)))

\* C6: at the instant the placement of a replacement ladder starts after a
\* refresh decision (fill, degraded count or drift), the tracked id set of
\* every side that is being replaced is empty, in startMonitoring and in
\* startBot.
TrackedEmptyWhenReplacing ==
    \A t \in Ticks :
        /\ pc[t] \in {"m_fillPlace", "m_refPlace"}
               => activeOrderIds[config.side] = {}
        /\ (pc[t] = "b_fillPlace" \/ (pc[t] = "b_refPlace" /\ Has(log[t], "refresh")))
               => \A s \in Sides : activeOrderIds[s] = {}

\* C7: in a tick without a fill in which the bot's open orders of a side are
\* not zero but fewer than the last expected count of that side, the loop
\* decides to refresh and issues the cancel for what remains before any
\* placement; the placement of that tick replaces the whole side: the new
\* tracked ids are exactly the orders it has put on the book, none of the
\* old ladder is kept, and with a usable reference price and no rejected
\* rung they are numberOfOrders.
DegradedRefreshRebuildsSide ==
    [][\A t \in Ticks :
          LET nb == Cardinality({o \in OnSide(book, "buy") :
                                    o.id \in activeOrderIds["bid"]})
              na == Cardinality({o \in OnSide(book, "sell") :
                                    o.id \in activeOrderIds["ask"]})
              ours == Cardinality(loc[t].ours)
              refreshed == IF Mono THEN {config.side} ELSE Sides
          IN
          /\ (/\ pc[t] = "m_refPrice"
              /\ Has(log'[t], "decide")
              /\ 0 < ours
              /\ ours < Cardinality(lastPlaced[config.side]))
                 => /\ pc'[t] = "m_refCancel"
                    /\ loc'[t].ids = Ids(loc[t].ours)
          /\ (/\ pc[t] = "b_fetch2"
              /\ Has(log'[t], "decide")
              /\ \/ 0 < nb /\ nb < expectedCount["bid"]
                 \/ 0 < na /\ na < expectedCount["ask"])
                 => pc'[t] = "b_refCancel"
          /\ (/\ pc[t] \in {"m_refCancel", "b_refCancel"}
              /\ Has(log[t], "count")
              /\ pc'[t] # pc[t])
                 => Has(log'[t], "cancel") /\ ~Has(log'[t], "place")
          /\ (/\ pc[t] \in {"m_refPlace", "b_refPlace"}
              /\ Has(log[t], "count")
              /\ pc'[t] = "idle"
              /\ ~Has(log'[t], "throw"))
                 => \A s \in refreshed :
                       /\ activeOrderIds'[s] =
                              Ids(OnSide(book' \ book, OrderSide(s)))
                       /\ activeOrderIds'[s] \cap Ids(book) = {}
                       /\ (events' = events /\ ticker # 0)
                              => Cardinality(activeOrderIds'[s]) = numberOfOrders]_vars

\* a tick that found fewer tracked orders than expected has cancelled and has
\* placed the side anew
DegradedSideRebuilt ==
    \E t \in Ticks :
        /\ pc[t] = "idle"
        /\ Has(log[t], "count")
        /\ Before(log[t], "cancel", "place")
        /\ ~Has(log[t], "throw")
        /\ \E s \in Sides :
               /\ activeOrderIds[s] # {}
               /\ activeOrderIds[s] = lastPlaced[s]
               /\ activeOrderIds[s] \subseteq Ids(book)

\* C8: a partially placed ladder is stable.  When the last placement put k
\* rungs on the book, 1 <= k < numberOfOrders, and a tick without a fill
\* sees all k of them open and tracked, at the prices planned for the
\* reference price it resolves, the tick issues no cancel and no placement.
PartialLadderIsStable ==
    [][\A t \in Ticks :
          LET side == config.side
              planned(sd) == {Ladder(sd, ticker)[i].price : i \in Rungs}
              intact(sd) ==
                  /\ activeOrderIds[sd] = lastPlaced[sd]
                  /\ lastPlaced[sd] # {}
                  /\ lastPlaced[sd] \subseteq Ids(OnSide(book, OrderSide(sd)))
                  /\ \A o \in book : o.id \in lastPlaced[sd]
                                         => o.price \in planned(sd)
          IN
          /\ (/\ pc[t] = "m_refPrice"
              /\ Has(log'[t], "decide")
              /\ ticker # 0
              /\ Ids(loc[t].ours) = lastPlaced[side]
              /\ intact(side)
              /\ Cardinality(lastPlaced[side]) < numberOfOrders)
                 => pc'[t] = "idle" /\ Has(log'[t], "stable")
          /\ (/\ pc[t] = "b_fetch2"
              /\ Has(log'[t], "decide")
              /\ ticker # 0
              /\ intact("bid")
              /\ intact("ask")
              /\ \E sd \in Sides : Cardinality(lastPlaced[sd]) < numberOfOrders)
                 => pc'[t] = "idle" /\ Has(log'[t], "stable")]_vars

\* C9: a startMonitoring tick without a fill that sees the full ladder and
\* resolves a reference price takes the nearest order (highest bid, lowest
\* ask) and cancels the whole side for replacement if and only if
\* |nearest - reference| / reference * 100 is strictly greater than
\* driftThresholdPercent; otherwise it leaves the ladder alone.
DriftRefreshIffBeyondThreshold ==
    [][\A t \in Ticks :
          LET prices == {o.price : o \in loc[t].ours}
              nearest == IF config.side = "bid" THEN MaxOf(prices)
                         ELSE MinOf(prices)
              beyond == Abs(nearest - ticker) * 100
                            > driftThresholdPercent * ticker
          IN
          (/\ pc[t] = "m_refPrice"
           /\ Has(log'[t], "decide")
           /\ Cardinality(loc[t].ours) = numberOfOrders
           /\ ticker > 0)
              => IF beyond
                 THEN /\ pc'[t] = "m_refCancel"
                      /\ loc'[t].ids = Ids(loc[t].ours)
                      /\ Has(log'[t], "drift")
                 ELSE /\ pc'[t] = "idle"
                      /\ Has(log'[t], "stable")
                      /\ UNCHANGED <<book, dying, activeOrderIds>>]_vars

\* a tick has decided to replace a full ladder whose nearest order is 25%
\* away from the reference price
DriftRefreshDecided ==
    \E t \in Ticks :
        /\ Mono
        /\ pc[t] = "m_refCancel"
        /\ Has(log[t], "drift")
        /\ Cardinality(loc[t].ours) = numberOfOrders
        /\ ticker > 0
        /\ Abs(closestOrderPrice(config.side, loc[t].ours) - ticker) * 100
               = 25 * ticker

\* C10: a startBot tick without a fill that sees the full expected count on
\* both sides while the nearest order of a side (highest bid, lowest ask) is
\* farther than driftThresholdPercent from the reference price cancels and
\* replaces the ladders in that tick.
BothDriftRefreshes ==
    [][\A t \in Ticks :
          LET ourBid == {o \in OnSide(book, "buy") : o.id \in activeOrderIds["bid"]}
              ourAsk == {o \in OnSide(book, "sell") : o.id \in activeOrderIds["ask"]}
              far(nearest) == Abs(nearest - ticker) * 100
                                 > driftThresholdPercent * ticker
          IN
          (/\ pc[t] = "b_fetch2"
           /\ Has(log'[t], "decide")
           /\ ticker > 0
           /\ ourBid # {}
           /\ ourAsk # {}
           /\ Cardinality(ourBid) = expectedCount["bid"]
           /\ Cardinality(ourAsk) = expectedCount["ask"]
           /\ \/ far(MaxOf({o.price : o \in ourBid}))
              \/ far(MinOf({o.price : o \in ourAsk})))
              => pc'[t] = "b_refCancel"]_vars

\* C11: a tick that begins with nothing tracked and runs to its end without
\* a throwing exchange call has planned and placed a fresh ladder (unless an
\* overlapping invocation has placed and tracked one in the meantime).
EmptyTrackedPlaces ==
    [][\A t \in Ticks :
          (/\ pc[t] # "idle"
           /\ pc'[t] = "idle"
           /\ Has(log'[t], "untracked")
           /\ ~Has(log'[t], "throw")
           /\ \A s \in Sides : activeOrderIds'[s] = {})
              => Has(log'[t], "place")]_vars

OneRulePerTick ==
    [][\A t \in Ticks :
          LET l == log'[t]
              times(ev) == Cardinality({i \in 1..Len(l) : l[i] = ev})
              missing == IF Mono THEN loc[t].captured \ Ids(book)
                         ELSE (activeOrderIds["bid"] \cup activeOrderIds["ask"])
                                  \ Ids(book)
          IN
          /\ times("place") <= 1
          /\ times("cancel") <= 1
          /\ Has(l, "snap0") =>
                 ~Has(l, "fill") /\ ~Has(l, "decide") /\ ~Has(l, "cancel")
          /\ Has(l, "fill") => ~Has(l, "decide")
          /\ Has(l, "drift") => ~Has(l, "count")
          /\ (/\ pc[t] = "m_fetch1"
              /\ pc'[t] # "m_fetch1"
              /\ events' = events
              /\ OnSide(book, ourSide) = {})
                 => pc'[t] = "m_emptyPlace"
          /\ (/\ pc[t] \in {"m_checkFilled", "b_checkFills"}
              /\ pc'[t] # pc[t]
              /\ events' = events
              /\ missing # {})
                 => /\ Has(l, "fill")
                    /\ pc'[t] \notin {"m_refPrice", "b_fetch2"}
          /\ (/\ pc[t] = "m_refPrice"
              /\ Has(l, "decide")
              /\ Cardinality(loc[t].ours) < numberOfOrders)
                 => Has(l, "count")]_vars

\* a tick has handled a fill while the reference price had drifted away: it
\* took the fill rule and placed one ladder
FillRuleBeforeDrift ==
    \E t \in Ticks :
        /\ pc[t] = "idle"
        /\ Has(log[t], "fill")
        /\ Has(log[t], "place")
        /\ ~Has(log[t], "throw")
        /\ ticker \in RefPrices \ {BasePrice}

\* C14: failure semantics of a tick.  When an exchange call throws in a tick
\* that has already issued its cancel, every tracked id set is empty when the
\* tick ends; when the throwing tick has issued no cancel and cleared
\* nothing, the tracked ids and the expected counts are left as they were.
ThrowAfterCancelClears ==
    [][\A t \in Ticks :
          (/\ pc[t] # "idle"
           /\ pc'[t] = "idle"
           /\ Has(log'[t], "throw")
           /\ ~Has(log[t], "throw"))
              => IF Has(log[t], "cancel")
                 THEN \A s \in Sides : activeOrderIds'[s] = {}
                 ELSE ~Has(log'[t], "clear")
                         => UNCHANGED <<activeOrderIds, expectedCount>>]_vars

\* C15: no failure of a tick stops the loop.  The monitor stays running after
\* a tick that threw, the both-side guard is held exactly while a tick body
\* executes (so it is released on every exit path), and whenever no tick body
\* is executing the next timer firing can enter a full tick body.
TickBegins ==
    \E t \in Ticks : (MonoTimer(t) \/ BothTimer(t)) /\ pc'[t] # "idle"

LoopSurvivesFailure ==
    /\ (\E t \in Ticks : Has(log[t], "throw")) => phase = "running"
    /\ Both => (isProcessing <=> \E t \in Ticks : pc[t] # "idle")
    /\ (phase = "running" /\ \A t \in Ticks : pc[t] = "idle")
          => ENABLED TickBegins

GuardReleasedAfterThrow ==
    /\ Both
    /\ phase = "running"
    /\ \A t \in Ticks : pc[t] = "idle"
    /\ \E t \in Ticks : Has(log[t], "throw")
    /\ ~isProcessing

\* C16: when the cancel of a refresh fails with an error other than "already
\* gone", nothing stays tracked for the refreshed side(s) at the end of the
\* tick, and the tick places no replacement ladder while orders it asked to
\* cancel still rest uncancelled.  The orders a tick asked to cancel are the
\* ids it passed to the cancel; one of them is uncancelled while it is in the
\* book with no accepted cancel.
CancelFailureStopsRefresh ==
    [][\A t \in Ticks :
          LET asked == IF Mono THEN loc[t].ids
                       ELSE activeOrderIds["bid"] \cup activeOrderIds["ask"]
              uncancelled == (asked \cap Ids(book)) \ dying
          IN
          /\ (pc[t] \in {"m_refCancel", "b_fillCancel"} /\ pc'[t] = "idle")
                => \A s \in Sides : activeOrderIds'[s] = {}
          /\ (/\ pc[t] \in {"m_fillRecheck", "m_refRecheck"}
              /\ Has(log[t], "cancel")
              /\ uncancelled # {})
                => activeOrderIds'[config.side] = {}
          /\ (/\ pc[t] \in {"m_fillPlace", "m_refPlace",
                             "b_fillPlace", "b_refPlace"}
              /\ pc'[t] # pc[t]
              /\ Has(log[t], "cancel")
              /\ uncancelled # {})
                => book' = book]_vars

\* C17: a cancel over a set of ids succeeds when some or all of the per-id
\* cancels are answered "already gone": those ids count as resolved, the
\* others are cancelled, and no error reaches the caller, which goes on to
\* its re-verification.
AlreadyGoneIsSuccess ==
    [][\A t \in Ticks :
          (/\ pc[t] \in {"m_fillCancel", "m_refCancel"}
           /\ pc'[t] # pc[t]
           /\ ~config.batch
           /\ alreadyGone(loc[t].ids) # {}
           /\ events' = events)
              => /\ pc'[t] \in {"m_fillRecheck", "m_refRecheck"}
                 /\ ~Has(log'[t], "throw")
                 /\ dying' = dying \cup (loc[t].ids \cap Ids(book))]_vars

RefreshPassedGoneOrder ==
    \E t \in Ticks :
        /\ pc[t] = "m_refRecheck"
        /\ Has(log[t], "gone")
        /\ ~Has(log[t], "throw")
        /\ events < MaxEvents

\* C18: every cancellation of the loop, in the mono-side and in the both-side
\* bot and on the fill path too, uses one batch call where the exchange
\* supports batch cancel (every open order of the symbol is then cancelled,
\* with no per-id call) and falls back to one cancelOrder per id where it
\* does not (every open id the loop asked for is then cancelled).
PerIdFallbackEverywhere ==
    [][\A t \in Ticks :
          LET asked == IF Mono THEN loc[t].ids
                       ELSE activeOrderIds["bid"] \cup activeOrderIds["ask"]
          IN
          (/\ pc[t] \in {"m_fillCancel", "m_refCancel",
                          "b_fillCancel", "b_refCancel"}
           /\ pc'[t] # pc[t]
           /\ asked # {}
           /\ events' = events)
              => dying' = dying \cup (IF config.batch THEN Ids(book)
                                      ELSE asked \cap Ids(book))]_vars

(* ---------------- Side Quoter, one createLimitOrder at a time ---------- *)
\* One call of placeOrdersOneSide (startBot) or placeMonoSideOrders
\* (startMonitoring) followed request by request.  quoter.i is the rung the
\* loop / map stands at, quoter.out the rungs whose createLimitOrder is
\* outstanding, quoter.calls the rungs submitted so far in order, and
\* quoter.placedOrders the list the call returns.

\* reference prices at which every rung passes prepareOrder, at which the
\* farthest ask rung is rounded below minAmount, and at which the nearest
\* bid rungs are
QuoterPrices == {BasePrice, 110000, 130000}

\* the catch block leaving the loop at the first failed rung
afterFailedRungBreak(i) == numberOfOrders + 1

\* the catch block of lines 249-257 has no break: the loop goes on
afterFailedRung(i) == i + 1

QuoterFrame ==
    UNCHANGED <<config, phase, dying, cancelRequested, ticker, events, activeOrderIds,
                expectedCount, isProcessing, pc, loc, log, lastPlaced,
                lastRecheck, call>>

InitQuoter ==
    /\ config \in {[mode |-> c.mode, side |-> c.side, batch |-> b] :
                      c \in Configs, b \in BOOLEAN}
    /\ phase = "start"
    /\ book = {}
    /\ dying = {}
    /\ cancelRequested = {}
    /\ ticker \in QuoterPrices
    /\ nextId = 1
    /\ events = 0
    /\ activeOrderIds = [s \in Sides |-> {}]
    /\ expectedCount = [s \in Sides |-> 0]
    /\ isProcessing = FALSE
    /\ pc = [t \in Ticks |-> "idle"]
    /\ loc = [t \in Ticks |-> NoLoc]
    /\ log = [t \in Ticks |-> <<>>]
    /\ lastPlaced = [s \in Sides |-> {}]
    /\ lastRecheck = {}
    /\ call = NotCalled
    /\ \E s \in (IF Mono THEN {config.side} ELSE Sides) :
          quoter = [NoCall EXCEPT !.at = "loop", !.side = s, !.i = 1]

\* a rung that prepareOrder rejects is passed over with no request
QuoterSkip ==
    /\ quoter.at = "loop"
    /\ quoter.i \in Rungs
    /\ quoter.i \notin Prepared(quoter.side, ticker)
    /\ quoter' = [quoter EXCEPT !.i = quoter.i + 1]
    /\ UNCHANGED <<book, nextId>>
    /\ QuoterFrame

\* trading.createLimitOrder is called for the rung: startBot awaits it
\* inside the loop, startMonitoring's map goes on to the next rung
QuoterSubmit ==
    /\ quoter.at = "loop"
    /\ quoter.i \in Rungs
    /\ quoter.i \in Prepared(quoter.side, ticker)
    /\ quoter' = [quoter EXCEPT
                     !.out = quoter.out \cup {quoter.i},
                     !.calls = Append(quoter.calls, quoter.i),
                     !.at = IF Both THEN "await" ELSE "loop",
                     !.i = IF Both THEN quoter.i ELSE quoter.i + 1]
    /\ UNCHANGED <<book, nextId>>
    /\ QuoterFrame

\* the order of rung r as the exchange accepted it
AcceptedOrder(r) ==
    [id    |-> nextId,
     side  |-> OrderSide(quoter.side),
     price |-> Ladder(quoter.side, ticker)[r].price,
     own   |-> TRUE]

\* an outstanding createLimitOrder returns an order, or throws (a rate
\* limit error makes placeOrdersOneSide wait before it goes on)
QuoterReturn(r, outcome) ==
    /\ r \in quoter.out
    /\ Mono => outcome # "ratelimit"
    /\ IF outcome = "ok"
       THEN /\ book' = book \cup {AcceptedOrder(r)}
            /\ nextId' = nextId + 1
       ELSE UNCHANGED <<book, nextId>>
    /\ quoter' = [quoter EXCEPT
                     !.out = quoter.out \ {r},
                     !.placedOrders =
                         IF outcome = "ok"
                         THEN quoter.placedOrders \cup
                                  {[id |-> nextId,
                                    price |-> AcceptedOrder(r).price]}
                         ELSE quoter.placedOrders,
                     !.at = IF Mono THEN quoter.at
                            ELSE IF outcome = "ratelimit" THEN "backoff"
                            ELSE IF outcome = "ok" THEN "delay"
                            ELSE "loop",
                     !.i = IF Mono THEN quoter.i
                           ELSE IF outcome = "ok" THEN quoter.i + 1
                           ELSE afterFailedRung(quoter.i)]
    /\ QuoterFrame

\* the 50 ms pause after a placed rung or the 2 s pause after a rate limit
\* error is over
QuoterWake ==
    /\ quoter.at \in {"delay", "backoff"}
    /\ quoter' = [quoter EXCEPT !.at = "loop"]
    /\ UNCHANGED <<book, nextId>>
    /\ QuoterFrame

\* the loop is through and nothing is outstanding: the list is returned
QuoterFinish ==
    /\ quoter.at = "loop"
    /\ quoter.i \notin Rungs
    /\ quoter.out = {}
    /\ quoter' = [quoter EXCEPT !.at = "returned"]
    /\ UNCHANGED <<book, nextId>>
    /\ QuoterFrame

NextQuoter ==
    \/ QuoterSkip
    \/ QuoterSubmit
    \/ \E r \in Rungs, outcome \in {"ok", "error", "ratelimit"} :
          QuoterReturn(r, outcome)
    \/ QuoterWake
    \/ QuoterFinish

SpecQuoter == InitQuoter /\ [][NextQuoter]_vars

\* how often rung r was submitted
Submitted(r) == Cardinality({k \in DOMAIN quoter.calls : quoter.calls[k] = r})

\* C19: a ladder placement attempts every rung that survives normalization
\* exactly once, whatever happened to the rungs before it, attempts no other
\* rung, and returns exactly the orders the exchange accepted, with their
\* ids.
EveryRungAttemptedOnce ==
    /\ \A r \in Rungs : Submitted(r) <= 1
    /\ quoter.at = "returned" =>
          /\ \A r \in Rungs :
                Submitted(r) = IF r \in Prepared(quoter.side, ticker)
                               THEN 1 ELSE 0
          /\ quoter.placedOrders =
                {[id |-> o.id, price |-> o.price] : o \in book}

LaterRungPlacedAfterFailure ==
    /\ quoter.at = "returned"
    /\ Len(quoter.calls) = numberOfOrders
    /\ Cardinality(quoter.placedOrders) = 1
    /\ \E p \in quoter.placedOrders :
          p.price = Ladder(quoter.side, ticker)[numberOfOrders].price

\* C20: the Side Quoter places sequentially, in the mono-side and in the
\* both-side bot: at most one createLimitOrder is outstanding at any time
\* and the rungs are submitted in index order.
SequentialPlacement ==
    /\ Cardinality(quoter.out) <= 1
    /\ \A j, k \in DOMAIN quoter.calls :
          j < k => quoter.calls[j] < quoter.calls[k]

(* --------------------- helper functions, call by call ------------------ *)
\* The pure helpers of both bots applied to inputs drawn from bounded sets.
\* call holds the last call (fn, args, result) and call.kept the first
\* planner call that was made, to compare a later one with.
MaxOrderCount == 5

CalcFrame ==
    UNCHANGED <<config, phase, book, dying, cancelRequested, ticker, nextId, events,
                activeOrderIds, expectedCount, isProcessing, pc, loc, log,
                lastPlaced, lastRecheck, quoter>>

InitCalc ==
    /\ config = [mode |-> "mono", side |-> "bid", batch |-> TRUE]
    /\ phase = "start"
    /\ book = {}
    /\ dying = {}
    /\ cancelRequested = {}
    /\ ticker = BasePrice
    /\ nextId = 1
    /\ events = 0
    /\ activeOrderIds = [s \in Sides |-> {}]
    /\ expectedCount = [s \in Sides |-> 0]
    /\ isProcessing = FALSE
    /\ pc = [t \in Ticks |-> "idle"]
    /\ loc = [t \in Ticks |-> NoLoc]
    /\ log = [t \in Ticks |-> <<>>]
    /\ lastPlaced = [s \in Sides |-> {}]
    /\ lastRecheck = {}
    /\ quoter = NoCall
    /\ call = [fn |-> "none", kept |-> <<>>]

\* arguments of calculateOrderDistribution; prices in minor units
PlanInputs ==
    [referencePrice : {100, BasePrice},
     side : Sides,
     totalQuoteAmount : {10, totalQuoteAmount},
     spreadPercent : {10, spreadPercent},
     numberOfOrders : 1..MaxOrderCount]

plan(a) ==
    calculateOrderDistribution(a.referencePrice, a.side, a.totalQuoteAmount,
                               a.spreadPercent, a.numberOfOrders)

\* calculateOrderDistribution is called
CallPlan ==
    /\ \E a \in PlanInputs :
          call' = [fn |-> "plan", args |-> a, result |-> plan(a),
                   kept |-> IF call.kept = <<>>
                            THEN <<[args |-> a, result |-> plan(a)]>>
                            ELSE call.kept,
                   \* another call was made since the kept one
                   again |-> /\ call.kept # <<>>
                             /\ (call.fn # "plan" \/ call.args # a)]
    /\ CalcFrame

\* limits and precisions of the markets a rung is normalized for; every
\* minimum price is a multiple of the price tick
Markets ==
    [priceTick : {1, 5}, amountTick : {1, 2}, minPrice : {5},
     minAmount : {0, 1}, minCost : {1, 30000}]

\* prepareOrder / the loop body of placeOrdersOneSide is applied to a rung of
\* the plan made first
CallNormalize ==
    /\ call.kept # <<>>
    /\ \E i \in DOMAIN call.kept[1].result, m \in Markets :
          call' = [fn |-> "normalize",
                   args |-> [rung |-> call.kept[1].result[i], market |-> m],
                   result |-> normalize(call.kept[1].result[i], m),
                   kept |-> call.kept]
    /\ CalcFrame

\* ticker snapshots: best bid, best ask and last trade, 0 for a missing one
Tickers == [bid : {0, 5900}, ask : {0, 6100}, last : {0, BasePrice}]

Policies == {"first_ask", "first_bid", "mid", "best"}

\* a || b || 0 on prices
OrElse(a, b) == IF a # 0 THEN a ELSE b

\* getReferencePrice of mm-mono-side.ts; the result is num/den
getReferencePrice(t, side, priceReference) ==
    CASE priceReference = "first_ask" ->
            [num |-> OrElse(t.ask, t.last), den |-> 1]
      [] priceReference = "first_bid" ->
            [num |-> OrElse(t.bid, t.last), den |-> 1]
      [] priceReference = "mid" ->
            IF t.bid # 0 /\ t.ask # 0
            THEN [num |-> t.bid + t.ask, den |-> 2]
            ELSE [num |-> t.last, den |-> 1]
      [] priceReference = "best" ->
            IF side = "bid"
            THEN [num |-> OrElse(t.bid, t.last), den |-> 1]
            ELSE [num |-> OrElse(t.ask, t.last), den |-> 1]
      [] OTHER -> [num |-> t.last, den |-> 1]

\* getReferencePrice of mm-both-side.ts: it takes no side
getReferencePriceBoth(t, priceReference) ==
    CASE priceReference = "first_ask" ->
            [num |-> OrElse(t.ask, t.last), den |-> 1]
      [] priceReference = "first_bid" ->
            [num |-> OrElse(t.bid, t.last), den |-> 1]
      [] priceReference \in {"mid", "best"} ->
            IF t.bid # 0 /\ t.ask # 0
            THEN [num |-> t.bid + t.ask, den |-> 2]
            ELSE [num |-> t.last, den |-> 1]
      [] OTHER -> [num |-> t.last, den |-> 1]

\* the resolver of one of the bots, for the ladder side being computed
resolve(bot, t, side, priceReference) ==
    IF bot = "mono" THEN getReferencePrice(t, side, priceReference)
    ELSE getReferencePriceBoth(t, priceReference)

\* a reference price is resolved for a ladder of one side
CallReference ==
    /\ \E bot \in {"mono", "both"}, t \in Tickers, s \in Sides, p \in Policies :
          call' = [fn |-> "reference",
                   args |-> [bot |-> bot, ticker |-> t, side |-> s,
                             priceReference |-> p],
                   result |-> resolve(bot, t, s, p),
                   kept |-> call.kept]
    /\ CalcFrame

\* free balances of the account, in base and in quote currency
Balances == [base : {0, 1}, quote : {0, 5, 200000}]

\* the ask branch comparing the free base balance itself, not its value
checkAndAdjustBalanceUnpriced(side, total, free, currentPrice) ==
    LET available == IF side = "ask" THEN free.base ELSE free.quote
        adjustedQuoteAmount == IF available < total THEN available ELSE total
    IN  [throws |-> adjustedQuoteAmount <= 0, amount |-> adjustedQuoteAmount]

\* checkAndAdjustBalance: the amount the ladder is planned with, or the
\* error of lines 438-444
checkAndAdjustBalance(side, total, free, currentPrice) ==
    LET available == IF side = "ask" THEN free.base * currentPrice
                     ELSE free.quote
        adjustedQuoteAmount == IF available < total THEN available ELSE total
    IN  [throws |-> adjustedQuoteAmount <= 0, amount |-> adjustedQuoteAmount]

\* placeMonoSideOrders up to its plan (lines 520-534): the balance check,
\* then the ladder for the adjusted amount; nothing is planned or placed
\* when the check throws
CallBalance ==
    /\ \E s \in Sides, total \in {10, totalQuoteAmount}, free \in Balances,
          price \in {100, BasePrice}, n \in {1, MaxOrderCount} :
          LET b == checkAndAdjustBalance(s, total, free, price) IN
          call' = [fn |-> "balance",
                   args |-> [side |-> s, totalQuoteAmount |-> total,
                             free |-> free, currentPrice |-> price,
                             numberOfOrders |-> n],
                   result |-> [throws |-> b.throws,
                               ladder |-> IF b.throws THEN <<>>
                                          ELSE calculateOrderDistribution(
                                                   price, s, b.amount,
                                                   spreadPercent, n)],
                   kept |-> call.kept]
    /\ CalcFrame

NextCalc ==
    \/ CallPlan
    \/ CallNormalize
    \/ CallReference
    \/ CallBalance

SpecCalc == InitCalc /\ [][NextCalc]_vars

RECURSIVE SumQnum(_, _)
SumQnum(r, k) == IF k = 0 THEN 0 ELSE r[k].qnum + SumQnum(r, k - 1)

\* C21: for every orderCount >= 1 the planner returns exactly orderCount
\* rungs, each with notional totalNotional / orderCount, the notionals
\* summing to totalNotional, and with prices strictly monotonic away from
\* the reference: ascending and above it for ask, descending and below it
\* for bid.
PlanShape ==
    call.fn = "plan" =>
        LET a == call.args
            r == call.result
            n == a.numberOfOrders
        IN
        /\ DOMAIN r = 1..n
        /\ \A i \in 1..n :
              /\ r[i].qden > 0 /\ r[i].den > 0
              /\ r[i].qden = r[1].qden
              /\ r[i].qnum * n = a.totalQuoteAmount * r[i].qden
              /\ IF a.side = "ask"
                 THEN r[i].num > a.referencePrice * r[i].den
                 ELSE r[i].num < a.referencePrice * r[i].den
        /\ SumQnum(r, n) = a.totalQuoteAmount * r[1].qden
        /\ \A i \in 1..(n - 1) :
              /\ r[i].den = r[i + 1].den
              /\ IF a.side = "ask"
                 THEN r[i].num < r[i + 1].num
                 ELSE r[i].num > r[i + 1].num

BidLadderPlanned ==
    /\ call.fn = "plan"
    /\ call.args.side = "bid"
    /\ call.args.numberOfOrders >= 2
    /\ DOMAIN call.result = 1..call.args.numberOfOrders

\* C22: rung i (from 0) of the plan has offset spreadPercent/100/orderCount
\* * (i + 0.5): the first rung lies half a step from the reference, the
\* rungs are one step apart, and none lies at the reference or at the spread
\* edge.  For ask, total 10, spread 10, 2 orders, reference 100 the rungs
\* are 102.50 and 107.50 with notional 5 each; for spread 20, 5 orders,
\* reference 1.00 (100 minor units) they are 1.02, 1.06, 1.10, 1.14, 1.18.
PlanOffsets ==
    call.fn = "plan" =>
        LET a == call.args
            r == call.result
            n == a.numberOfOrders
            ref == a.referencePrice
            sign == IF a.side = "ask" THEN 1 ELSE -1
        IN
        /\ \A i \in 1..n :
              \* step = ref * spread/100/n; offset of rung i = step * (i - 1/2)
              /\ r[i].den = 200 * n
              /\ r[i].num - ref * r[i].den
                    = sign * ref * a.spreadPercent * (2 * i - 1)
              \* strictly between the reference and the spread edge
              /\ sign * r[i].num > sign * ref * r[i].den
              /\ sign * 100 * r[i].num
                    < sign * ref * (100 + sign * a.spreadPercent) * r[i].den
        /\ (a.side = "ask" /\ a.totalQuoteAmount = 10 /\ a.spreadPercent = 10
               /\ n = 2 /\ ref = 100)
              => /\ 10 * r[1].num = 1025 * r[1].den
                 /\ 10 * r[2].num = 1075 * r[2].den
                 /\ \A i \in 1..2 : r[i].qnum = 5 * r[i].qden
        /\ (a.side = "ask" /\ a.spreadPercent = 20 /\ n = 5 /\ ref = 100)
              => \A i \in 1..5 : r[i].num = (98 + 4 * i) * r[i].den

PlannedExampleLadder ==
    /\ call.fn = "plan"
    /\ call.args = [referencePrice |-> 100, side |-> "ask",
                    totalQuoteAmount |-> 10, spreadPercent |-> 10,
                    numberOfOrders |-> 2]
    /\ Len(call.result) = 2

\* C23: every rung the normalizer does not reject has a price that is a
\* multiple of the price tick and at least minPrice, a base amount that is a
\* multiple of the amount tick and at least minAmount, and a notional (base
\* amount * price) of at least the minimum notional of the exchange.
NormalizedMeetsLimits ==
    (call.fn = "normalize" /\ call.result.ok) =>
        LET m == call.args.market
            o == call.result
        IN
        /\ o.price % m.priceTick = 0
        /\ o.price >= m.minPrice
        /\ o.baseAmount % m.amountTick = 0
        /\ o.baseAmount >= m.minAmount
        /\ o.baseAmount * o.price >= m.minCost

\* C24: the price reference resolver of either bot returns, for every ticker
\* snapshot, the lowest ask for first_ask and the highest bid for first_bid
\* (when the ticker has them), (bid + ask) / 2 for mid when both exist and
\* otherwise the last trade, and for best what first_bid returns when a bid
\* ladder is computed and what first_ask returns when an ask ladder is.
ResolverPolicies ==
    call.fn = "reference" =>
        LET a == call.args
            t == a.ticker
            r == call.result
        IN
        /\ (a.priceReference = "first_ask" /\ t.ask # 0)
              => r.num = t.ask * r.den
        /\ (a.priceReference = "first_bid" /\ t.bid # 0)
              => r.num = t.bid * r.den
        /\ a.priceReference = "mid"
              => IF t.bid # 0 /\ t.ask # 0
                 THEN 2 * r.num = (t.bid + t.ask) * r.den
                 ELSE r.num = t.last * r.den
        /\ a.priceReference = "best"
              => r = resolve(a.bot, t, a.side,
                             IF a.side = "bid" THEN "first_bid"
                             ELSE "first_ask")

\* C29: placeMonoSideOrders plans its ladder with the budget
\* min(totalQuoteAmount, available), where available is the free base
\* balance times the reference price for ask and the free quote balance for
\* bid; with a budget <= 0 it fails and plans (and places) no order.
BudgetIsMinOfTotalAndBalance ==
    call.fn = "balance" =>
        LET a == call.args
            available == IF a.side = "ask"
                         THEN a.free.base * a.currentPrice
                         ELSE a.free.quote
            budget == MinOf({a.totalQuoteAmount, available})
            ladder == call.result.ladder
        IN
        /\ call.result.throws <=> budget <= 0
        /\ call.result.throws => ladder = <<>>
        /\ ~call.result.throws =>
              /\ Len(ladder) = a.numberOfOrders
              /\ \A i \in DOMAIN ladder : ladder[i].qden = ladder[1].qden
              /\ SumQnum(ladder, Len(ladder)) = budget * ladder[1].qden

AskBudgetCutToBalance ==
    /\ call.fn = "balance"
    /\ call.args.side = "ask"
    /\ call.args.free.base = 1
    /\ call.args.totalQuoteAmount = totalQuoteAmount
    /\ ~call.result.throws
    /\ Len(call.result.ladder) >= 2

NoLiquidityTickIsIdle ==
    [][\A t \in Ticks :
          /\ (/\ pc[t] = "m_refPrice"
              /\ pc'[t] # pc[t]
              /\ ticker = 0
              /\ events' = events)
                => /\ pc'[t] = "idle"
                   /\ UNCHANGED <<activeOrderIds, book, dying>>
          /\ (/\ pc[t] \in {"m_emptyPlace", "m_fillPlace", "m_refPlace",
                             "b_fillPlace", "b_refPlace"}
              /\ pc'[t] # pc[t]
              /\ ticker = 0
              /\ events' = events)
                => UNCHANGED <<activeOrderIds, book, dying>>]_vars

\* C26: an unresolvable reference price at startup aborts the run, in mono
\* and in both mode: the start function fails with no order placed and the
\* monitoring timer is never armed.
StartAbortsWithoutReference ==
    [][(phase = "start" /\ phase' # "start" /\ ticker = 0)
          => /\ phase' = "aborted"
             /\ book' = book]_vars

(* ------------------------------ shutdown ------------------------------- *)
\* process.exit: every callback invocation in flight ends with the process
Exited ==
    /\ phase' = "exited"
    /\ pc' = [t \in Ticks |-> "idle"]
    /\ loc' = [t \in Ticks |-> NoLoc]

\* a handler that exits without cancelling
SigintNoCancel ==
    /\ phase = "running"
    /\ Exited
    /\ UNCHANGED <<config, quoter, call, exch, events, activeOrderIds,
                   expectedCount, isProcessing, log, lastPlaced, lastRecheck>>

\* SIGINT: clearInterval, then exchange.cancelAllOrders is called -
\* startMonitoring only calls it with something tracked and otherwise exits
\* at once, startBot always calls it
Sigint ==
    /\ phase = "running"
    /\ IF Mono /\ activeOrderIds[config.side] = {}
       THEN Exited
       ELSE phase' = "stopping" /\ UNCHANGED <<pc, loc>>
    /\ UNCHANGED <<config, quoter, call, exch, events, activeOrderIds,
                   expectedCount, isProcessing, log, lastPlaced, lastRecheck>>

\* the exchange answers the cancel of the handler; the handler is still
\* suspended at its await, and callback invocations in flight go on
ShutdownCancel ==
    /\ phase = "stopping"
    /\ \E result \in {"ok", "throw"} :
          /\ exchangeCancelAll(result)
          /\ phase' = IF result = "ok" THEN "cancelled" ELSE "cancelFailed"
    /\ UNCHANGED <<config, quoter, call, book, ticker, nextId, activeOrderIds,
                   expectedCount, isProcessing, pc, loc, log, lastPlaced,
                   lastRecheck>>

\* the handler resumes: the cancel returned or threw (the error is only
\* logged), and the process exits
ShutdownExit ==
    /\ phase \in {"cancelled", "cancelFailed"}
    /\ Exited
    /\ UNCHANGED <<config, quoter, call, exch, events, activeOrderIds,
                   expectedCount, isProcessing, log, lastPlaced, lastRecheck>>

\* a run that is shut down, on a market whose price stays where it is
InitShutdown == Init /\ ticker = BasePrice

NextShutdown ==
    \/ MonoStart
    \/ BothStart
    \/ OrderGone
    \/ Settle
    \/ \E t \in Ticks : MonoTimer(t)
    \/ \E t \in Ticks : MonoFetch1(t)
    \/ \E t \in Ticks : MonoCheckFilled(t)
    \/ \E t \in Ticks : MonoFillCancel(t)
    \/ \E t \in Ticks : MonoFillRecheck(t)
    \/ \E t \in Ticks : MonoRefPrice(t)
    \/ \E t \in Ticks : MonoRefCancel(t)
    \/ \E t \in Ticks : MonoRefRecheck(t)
    \/ \E t \in Ticks : MonoPlace(t)
    \/ \E t \in Ticks : BothTimer(t)
    \/ \E t \in Ticks : BothCheckFills(t)
    \/ \E t \in Ticks : BothFillCancel(t)
    \/ \E t \in Ticks : BothFillRecheck(t)
    \/ \E t \in Ticks : BothFetch2(t)
    \/ \E t \in Ticks : BothRefCancel(t)
    \/ \E t \in Ticks : BothPlace(t)
    \/ Sigint
    \/ ShutdownCancel
    \/ ShutdownExit

SpecShutdown == InitShutdown /\ [][NextShutdown]_vars

\* C27: on a termination signal the handler stops the timer first, then
\* issues one cancel-all that covers every tracked id whenever something is
\* tracked, and exits only after that cancel has returned; no tick starts
\* once the timer is stopped.
ShutdownOrdering ==
    [][/\ \* the signal stops the timer, and with tracked ids a cancel is issued
          (phase = "running" /\ phase' # "running")
             => /\ \A t \in Ticks : pc[t] = "idle" => pc'[t] = "idle"
                /\ (\E s \in Sides : activeOrderIds[s] # {})
                      => phase' = "stopping"
       /\ \* no tick starts after the timer was stopped
          phase # "running"
             => \A t \in Ticks : pc[t] = "idle" => pc'[t] = "idle"
       /\ \* the cancel covers every tracked id
          (phase = "stopping" /\ phase' # "stopping")
             => /\ phase' \in {"cancelled", "cancelFailed"}
                /\ (config.batch /\ events' = events)
                      => \A s \in Sides :
                            activeOrderIds[s] \cap Ids(book) \subseteq dying'
       /\ \* the exit follows the return of the cancel
          (phase \in {"cancelled", "cancelFailed"} /\ phase' # phase)
             => phase' = "exited"
       /\ phase = "exited" => phase' = "exited"]_vars

ExitedAfterCancel ==
    /\ phase = "exited"
    /\ \E s \in Sides : activeOrderIds[s] \cap dying # {}

\* C28: a mono-side bot manages only its own side: every cancellation it
\* performs requests the cancel of orders on its configured side only, so
\* orders resting on the opposite side of the symbol are never cancelled by
\* it.
MonoCancelsOwnSideOnly ==
    [][\A t \in Ticks :
          (/\ Mono
           /\ pc[t] \in {"m_fillCancel", "m_refCancel"}
           /\ pc'[t] # pc[t])
              => dying' \ dying \subseteq Ids(OnSide(book, ourSide))]_vars

(* ---------------------------- fill detection --------------------------- *)
Range(l) == {l[i] : i \in DOMAIN l}

\* checkFilledOrders comparing the tracked ids with the open orders of its
\* own side only
checkFilledOrdersOwnSide(placedOrderIds, openOrders, side) ==
    LET openOrderIds == Ids(OnSide(openOrders, side))
        isOpen(id) == id \in openOrderIds
        isFilled(id) == id \notin openOrderIds
        find(id) == CHOOSE o \in openOrders : o.id = id
        stillOpen == SelectSeq(placedOrderIds, isOpen)
        ourSideOrders == OnSide(openOrders, side)
    IN  [filled |-> SelectSeq(placedOrderIds, isFilled),
         open |-> [i \in DOMAIN stillOpen |-> find(stillOpen[i])],
         ourSideTotalCount |-> Cardinality(ourSideOrders),
         ourSideOtherCount |->
             Cardinality({o \in ourSideOrders : o.id \notin Range(placedOrderIds)})]

\* checkFilledOrders once fetchOpenOrders has returned openOrders: the loop
\* over placedOrderIds of lines 893-902 and the counts of lines 905-913
checkFilledOrders(placedOrderIds, openOrders, side) ==
    LET openOrderIds == Ids(openOrders)
        isOpen(id) == id \in openOrderIds
        isFilled(id) == id \notin openOrderIds
        find(id) == CHOOSE o \in openOrders : o.id = id
        stillOpen == SelectSeq(placedOrderIds, isOpen)
        ourSideOrders == OnSide(openOrders, side)
    IN  [filled |-> SelectSeq(placedOrderIds, isFilled),
         open |-> [i \in DOMAIN stillOpen |-> find(stillOpen[i])],
         ourSideTotalCount |-> Cardinality(ourSideOrders),
         ourSideOtherCount |->
             Cardinality({o \in ourSideOrders : o.id \notin Range(placedOrderIds)})]

\* checkForFills once fetchOpenOrders has returned allOpenOrders
checkForFills(bidOrderIds, askOrderIds, allOpenOrders) ==
    LET openOrderIds == Ids(allOpenOrders)
        isFilled(id) == id \notin openOrderIds
    IN  [bidFilled |-> SelectSeq(bidOrderIds, isFilled),
         askFilled |-> SelectSeq(askOrderIds, isFilled)]

\* orders a snapshot can show: three of the bot and one of somebody else
SnapshotOrders ==
    {[id |-> i, side |-> IF i % 2 = 1 THEN "buy" ELSE "sell",
      price |-> BasePrice, own |-> i <= 3] : i \in 1..4}

\* tracked id lists: up to two ids, in any order, an id possibly twice
IdLists == {<<>>} \cup {<<i>> : i \in 1..3} \cup {<<i, j>> : i, j \in 1..3}

\* startMonitoring looks for fills (line 1025)
CallCheckFilledOrders ==
    /\ \E ids \in IdLists, snapshot \in SUBSET SnapshotOrders,
          s \in {"buy", "sell"} :
          call' = [fn |-> "checkFilledOrders",
                   args |-> [placedOrderIds |-> ids, openOrders |-> snapshot,
                             ourSide |-> s],
                   result |-> checkFilledOrders(ids, snapshot, s),
                   kept |-> call.kept]
    /\ CalcFrame

\* startBot looks for fills (line 464)
CallCheckForFills ==
    /\ \E bids \in IdLists, asks \in {<<>>, <<2>>, <<2, 3>>},
          snapshot \in SUBSET SnapshotOrders :
          call' = [fn |-> "checkForFills",
                   args |-> [bidOrderIds |-> bids, askOrderIds |-> asks,
                             openOrders |-> snapshot],
                   result |-> checkForFills(bids, asks, snapshot),
                   kept |-> call.kept]
    /\ CalcFrame

NextFills ==
    \/ CallCheckFilledOrders
    \/ CallCheckForFills

SpecFills == InitCalc /\ [][NextFills]_vars

\* C31: fill detection is the set difference tracked minus open: for every
\* tracked id list and open-order snapshot, checkFilledOrders and
\* checkForFills return as filled exactly the tracked ids absent from the
\* snapshot, checkFilledOrders returns as open exactly the snapshot orders
\* whose id is tracked, and filled and open partition the tracked ids.
FilledIsTrackedMinusOpen ==
    /\ call.fn = "checkFilledOrders" =>
          LET tracked == Range(call.args.placedOrderIds)
              snapshot == call.args.openOrders
              filled == Range(call.result.filled)
              open == Range(call.result.open)
          IN  /\ filled = tracked \ Ids(snapshot)
              /\ open = {o \in snapshot : o.id \in tracked}
              /\ filled \cap Ids(open) = {}
              /\ filled \cup Ids(open) = tracked
    /\ call.fn = "checkForFills" =>
          LET openIds == Ids(call.args.openOrders)
          IN  /\ Range(call.result.bidFilled)
                    = Range(call.args.bidOrderIds) \ openIds
              /\ Range(call.result.askFilled)
                    = Range(call.args.askOrderIds) \ openIds

\* two tracked ids, one gone and one still open next to a foreign order
OneFilledOneOpen ==
    /\ call.fn = "checkFilledOrders"
    /\ Len(call.args.placedOrderIds) = 2
    /\ Len(call.result.filled) = 1
    /\ Len(call.result.open) = 1
    /\ call.result.ourSideOtherCount = 1

\* C32: except for the initial placement at startup, every ladder placement
\* made by a tick is preceded, within the same tick, by an open-order
\* snapshot that showed zero resting orders on the side(s) being placed: on
\* the fill path, the empty / missing path and the count / drift refresh
\* path, in mono and in both mode.
PlacementAfterEmptySnapshot ==
    [][\A t \in Ticks :
          (/\ pc[t] \in {"m_emptyPlace", "m_fillPlace", "m_refPlace",
                          "b_fillPlace", "b_refPlace"}
           /\ pc'[t] # pc[t]
           /\ book' # book)
              => \/ Has(log[t], "snap0")
                 \/ Has(log[t], "recheck0")]_vars

\* C33: no orphaned orders: at the end of every tick, each order the bot
\* placed that still rests on the exchange is either in the tracked id set
\* or has had a cancel request issued for it; an order is never left resting
\* while untracked and uncancelled, also when ticks overlap in mono mode.
NoOrphanedOrders ==
    [][\A t \in Ticks :
          (pc[t] # "idle" /\ pc'[t] = "idle")
              => \A o \in book' :
                    o.own => \/ \E s \in Sides : o.id \in activeOrderIds'[s]
                             \/ o.id \in cancelRequested']_vars

\* C34: in every reachable state the number of tracked ids per side is at
\* most the configured ladder size numberOfOrders, and in both mode at most
\* the side's expected count; the tracked set never contains the id of an
\* order the bot did not place (the bot's orders have the ids below nextId).
TrackedWithinLadder ==
    \A s \in Sides :
        /\ Cardinality(activeOrderIds[s]) <= numberOfOrders
        /\ Both => Cardinality(activeOrderIds[s]) <= expectedCount[s]
        /\ activeOrderIds[s] \subseteq 1..(nextId - 1)

\* C35: shutdown racing a running tick: when the termination signal arrives
\* while a tick is in the middle of a refresh (tracked ids cleared or stale,
\* replacement orders being placed) and the shutdown cancel call itself
\* succeeds, no order placed by the bot is left resting on the exchange at
\* process exit.  Orders whose cancellation the exchange has accepted are
\* not counted as resting.
ShutdownLeavesNothingResting ==
    [][(phase = "cancelled" /\ phase' = "exited")
          => \A o \in book' : o.own => o.id \in dying']_vars

====
